---- MODULE Spec2Model ----
(***************************************************************************)
(* State-machine model of the workout-machine web client: the VitruvianApp *)
(* controller (app.js), the rep detector and the Just-Lift auto-stop gate. *)
(* The BLE device layer (device.js) is not part of the sources; it is      *)
(* modelled from the design document (sections 4.3, 4.6 and 5).            *)
(***************************************************************************)
EXTENDS Integers, Sequences, FiniteSets, TLC

VARIABLES
    app,      \* the fields of the VitruvianApp singleton
    device,   \* the fields of VitruvianDevice (transport)
    now,      \* Date.now(), in whole seconds since the gate was last disarmed
    obs       \* observation record: what the last step did, per-session history

vars == <<app, device, now, obs>>

(***************************************************************************)
(* Bounds of the model.                                                    *)
(***************************************************************************)
MaxTime == 5            \* the clock stops advancing here
MaxSessions == 2        \* number of start actions in one behaviour
MaxTarget == 2          \* largest rep target the user enters
MaxReps == 2            \* cap on workingReps when nothing completes the session
MaxPendingStops == 2    \* cap on STOP requests in flight at once

\* positions a monitor sample can carry for (cable A, cable B)
Samples ==
    { [posA |-> 0, posB |-> 0], [posA |-> 1000, posB |-> 1000] }
\* the one position of the environments in which positions do not matter
RepSamples == { [posA |-> 500, posB |-> 500] }

\* 16-bit counter values a rep notification can carry
CounterVals == {0, 65535}

\* counter values next to the ends and the middle of the 16-bit range
EdgeWidth == 5

\* GATT operations submitted on one link, and bytes of one write
MaxOps == 3
FrameLen == 2
\* calls of disconnect() and platform disconnect events on one link
MaxTriggers == 2
DeltaVals == (0..EdgeWidth) \cup ((65535 - EdgeWidth)..65535) \cup {32767, 32768}

(***************************************************************************)
(* JavaScript values.                                                      *)
(***************************************************************************)
Null == 0 - 1           \* null, for fields that otherwise hold a number >= 0
Undefined == 0 - 2      \* undefined, for the last-counter fields
NoSample == [posA |-> Null, posB |-> Null]      \* currentSample === null
NoWorkout == [id |-> 0, justLift |-> FALSE, targetReps |-> 0,
              warmupEndTime |-> Null]           \* currentWorkout === null

\* ToNumber(x) for x a number or null: null converts to 0 in arithmetic
Num(x) == IF x = Null THEN 0 ELSE x
\* !x for x a number or null: null and 0 are both falsy
Falsy(x) == x = Null \/ x = 0

\* Math.round(n / d) for integers n >= 0, d > 0 (rounds half up)
MathRound(n, d) == (2 * n + d) \div (2 * d)

RECURSIVE SeqSum(_)
SeqSum(s) == IF s = <<>> THEN 0 ELSE Head(s) + SeqSum(Tail(s))

(***************************************************************************)
(* Constants of the program.                                               *)
(***************************************************************************)
DefaultWarmupTarget == 3    \* this.warmupTarget = 3
MinRangeThreshold == 50     \* const minRangeThreshold = 50
AutoStopDwell == 5          \* elapsed >= 5.0 (seconds)
StopMaxAttempts == 3        \* STOP retry count of the transport

(***************************************************************************)
(* Observations. obs.ev is the set of things the last step did; the other  *)
(* fields accumulate over the current session (they are reset by a start). *)
(***************************************************************************)
Note(w, e) == [w EXCEPT !.obs.ev = @ \cup {e}]

(***************************************************************************)
(* VitruvianDevice (transport). The operation queue is abstracted to the   *)
(* STOP requests in flight (stopOps: the attempt number of each, FIFO) and *)
(* the start write in flight (startOp).                                    *)
(***************************************************************************)
stopPropertyPolling(w) == [w EXCEPT !.device.propertyPolling = FALSE]
stopMonitorPolling(w) == [w EXCEPT !.device.monitorPolling = FALSE]

\* sendStopCommand(), up to the first suspension: a disconnected transport
\* throws at once; a connected one queues the STOP write (attempt 1) and
\* pauses the poll loops, with at most one monitor read already in flight.
sendStopCommandThrows(w) == ~w.device.isConnected

sendStopCommand(w) ==
    [w EXCEPT !.device.stopOps = Append(@, 1),
              !.device.monitorReadInFlight = @ \/ w.device.monitorPolling]

\* The single disconnect path: poll loops stopped, queue cleared.
handleDisconnect(w) ==
    [w EXCEPT !.obs.ev = @ \cup {"linkDown"},
              !.device.isConnected = FALSE,
              !.device.monitorPolling = FALSE,
              !.device.propertyPolling = FALSE,
              !.device.monitorReadInFlight = FALSE,
              !.device.stopOps = <<>>,
              !.device.startOp = "none"]


(***************************************************************************)
(* VitruvianApp: reset, history, completion.                               *)
(***************************************************************************)
\* the reset leaving currentWorkout in place
resetRepCountersKeepsWorkout(w) ==
    [w EXCEPT !.app.warmupReps = 0,
              !.app.workingReps = 0,
              !.app.topPositionsA = <<>>,
              !.app.bottomPositionsA = <<>>,
              !.app.topPositionsB = <<>>,
              !.app.bottomPositionsB = <<>>,
              !.app.minRepPosA = Null,
              !.app.maxRepPosA = Null,
              !.app.minRepPosB = Null,
              !.app.maxRepPosB = Null,
              !.app.autoStopStartTime = Null,
              !.app.isJustLiftMode = FALSE,
              !.app.lastTopCounter = Undefined]

resetRepCountersToEmpty(w) ==
    [w EXCEPT !.app.warmupReps = 0,
              !.app.workingReps = 0,
              !.app.currentWorkout = NoWorkout,
              !.app.topPositionsA = <<>>,
              !.app.bottomPositionsA = <<>>,
              !.app.topPositionsB = <<>>,
              !.app.bottomPositionsB = <<>>,
              !.app.minRepPosA = Null,
              !.app.maxRepPosA = Null,
              !.app.minRepPosB = Null,
              !.app.maxRepPosB = Null,
              !.app.autoStopStartTime = Null,
              !.app.isJustLiftMode = FALSE,
              !.app.lastTopCounter = Undefined]

addToWorkoutHistory(w, workout) ==
    [w EXCEPT !.app.workoutHistory = <<workout>> \o @]

\* completeWorkout archiving every counted rep, warm-up included
completeWorkoutArchivesTotal(w) ==
    IF w.app.currentWorkout # NoWorkout
    THEN LET w1 == stopMonitorPolling(stopPropertyPolling(w))
             w2 == addToWorkoutHistory(w1,
                       [id |-> w1.app.currentWorkout.id,
                        reps |-> w1.app.warmupReps + w1.app.workingReps])
         IN Note(resetRepCountersToEmpty(w2), "completed")
    ELSE w

\* completeWorkout archiving the requested target
completeWorkoutArchivesTarget(w) ==
    IF w.app.currentWorkout # NoWorkout
    THEN LET w1 == stopMonitorPolling(stopPropertyPolling(w))
             w2 == addToWorkoutHistory(w1,
                       [id |-> w1.app.currentWorkout.id,
                        reps |-> w1.app.targetReps])
         IN Note(resetRepCountersToEmpty(w2), "completed")
    ELSE w

completeWorkout(w) ==
    IF w.app.currentWorkout # NoWorkout
    THEN LET w1 == stopMonitorPolling(stopPropertyPolling(w))
             w2 == addToWorkoutHistory(w1,
                       [id |-> w1.app.currentWorkout.id,
                        reps |-> w1.app.workingReps])
         IN Note(resetRepCountersToEmpty(w2), "completed")
    ELSE w

\* stopWorkout(), after the await rejected: the catch block (log and alert)
stopWorkoutRejected(w) == Note(w, "stopEnded")

\* stopWorkout(), up to its await: the STOP request is issued
stopWorkout(w) ==
    IF sendStopCommandThrows(w)
    THEN stopWorkoutRejected(w)
    ELSE sendStopCommand(w)

\* stopWorkout(), after the await resolved: the session is completed
stopWorkoutResolved(w) == Note(completeWorkout(w), "stopEnded")

\* A disconnect: the STOP requests still queued fail with DisconnectedError,
\* and each ends in stopWorkout's catch block; a start write still queued
\* fails likewise and ends in the catch block of startProgram / startEcho.
disconnected(w) ==
    LET w1 == IF w.device.stopOps # <<>>
              THEN stopWorkoutRejected(handleDisconnect(w))
              ELSE handleDisconnect(w)
    IN IF w.device.startOp # "none" THEN Note(w1, "startFailed") ELSE w1

\* the STOP write at the head of the queue failed with a transport error and
\* the transport drops the request, leaving the link up
stopWriteFailedGivesUp(w) ==
    IF Head(w.device.stopOps) < StopMaxAttempts
    THEN [w EXCEPT !.device.stopOps[1] = @ + 1]
    ELSE stopWorkoutRejected(
             Note([w EXCEPT !.device.stopOps = Tail(@)], "stopGaveUp"))

\* the STOP write at the head of the queue failed with a transport error: it
\* is retried after the backoff, and after the last attempt the transport
\* forces a disconnect, which fails the request
stopWriteFailed(w) ==
    IF Head(w.device.stopOps) < StopMaxAttempts
    THEN [w EXCEPT !.device.stopOps[1] = @ + 1]
    ELSE Note(disconnected(w), "stopGaveUp")

(***************************************************************************)
(* Rolling windows and calibrated range.                                   *)
(***************************************************************************)
getWindowSize(a) ==
    IF a.warmupReps + a.workingReps < a.warmupTarget THEN 2 ELSE 3

\* the average truncated instead of rounded
calculateAverageTruncated(arr) ==
    IF Len(arr) = 0 THEN Null ELSE SeqSum(arr) \div Len(arr)

calculateAverage(arr) ==
    IF Len(arr) = 0 THEN Null ELSE MathRound(SeqSum(arr), Len(arr))

updateRepRanges(w) ==
    [w EXCEPT !.app.maxRepPosA = calculateAverage(w.app.topPositionsA),
              !.app.minRepPosA = calculateAverage(w.app.bottomPositionsA),
              !.app.maxRepPosB = calculateAverage(w.app.topPositionsB),
              !.app.minRepPosB = calculateAverage(w.app.bottomPositionsB)]

\* arr.push(pos); if (arr.length > windowSize) arr.shift();
PushWindow(arr, pos, windowSize) ==
    LET pushed == Append(arr, pos)
    IN IF Len(pushed) > windowSize THEN Tail(pushed) ELSE pushed

recordTopPosition(w, posA, posB) ==
    LET n == getWindowSize(w.app)
    IN updateRepRanges(
         [w EXCEPT !.app.topPositionsA = PushWindow(@, posA, n),
                   !.app.topPositionsB = PushWindow(@, posB, n)])

recordBottomPosition(w, posA, posB) ==
    LET n == getWindowSize(w.app)
    IN updateRepRanges(
         [w EXCEPT !.app.bottomPositionsA = PushWindow(@, posA, n),
                   !.app.bottomPositionsB = PushWindow(@, posB, n)])

(***************************************************************************)
(* Auto-stop gate (Just Lift). t is Date.now() in seconds.                 *)
(* minRepPos + range * 0.05 is compared in twentieths, which is exact for  *)
(* integer positions.                                                      *)
(***************************************************************************)
checkAutoStop(w, sample, t) ==
    LET a == w.app
        rangeA == Num(a.maxRepPosA) - Num(a.minRepPosA)
        rangeB == Num(a.maxRepPosB) - Num(a.minRepPosB)
        checkCableA == rangeA > MinRangeThreshold
        checkCableB == rangeB > MinRangeThreshold
        inDangerZone ==
            \/ checkCableA /\ 20 * sample.posA <= 20 * Num(a.minRepPosA) + rangeA
            \/ checkCableB /\ 20 * sample.posB <= 20 * Num(a.minRepPosB) + rangeB
    IN  IF Falsy(a.minRepPosA) /\ Falsy(a.minRepPosB) THEN w
        ELSE IF ~checkCableA /\ ~checkCableB THEN w
        ELSE IF inDangerZone
        THEN LET w1 == IF a.autoStopStartTime = Null
                       THEN [w EXCEPT !.app.autoStopStartTime = t]
                       ELSE w
                 elapsed == t - w1.app.autoStopStartTime
             IN IF elapsed >= AutoStopDwell
                THEN stopWorkout(
                       [Note(w1, "autoStop") EXCEPT
                          !.obs.autoStops = IF @ < 2 THEN @ + 1 ELSE @])
                ELSE w1
        ELSE [w EXCEPT !.app.autoStopStartTime = Null]

\* The danger zone of the design document (section 4.5): some cable with a
\* calibrated range above the noise floor is at or below its calibrated min
\* plus 5% of the range.
InDangerZone(a, sample) ==
    \/ /\ a.minRepPosA # Null /\ a.maxRepPosA # Null
       /\ a.maxRepPosA - a.minRepPosA > MinRangeThreshold
       /\ 20 * sample.posA <= 20 * a.minRepPosA + (a.maxRepPosA - a.minRepPosA)
    \/ /\ a.minRepPosB # Null /\ a.maxRepPosB # Null
       /\ a.maxRepPosB - a.minRepPosB > MinRangeThreshold
       /\ 20 * sample.posB <= 20 * a.minRepPosB + (a.maxRepPosB - a.minRepPosB)

\* updateLiveStats running the gate in every mode
updateLiveStatsAlwaysGated(w, sample, t) ==
    LET w1 == [w EXCEPT !.app.currentSample = sample]
    IN checkAutoStop(Note(w1, "jlSample"), sample, t)

updateLiveStats(w, sample, t) ==
    LET w1 == [w EXCEPT !.app.currentSample = sample]
    IN IF w1.app.isJustLiftMode
       THEN checkAutoStop(Note(w1, "jlSample"), sample, t)
       ELSE w1

(***************************************************************************)
(* Rep detector.                                                           *)
(***************************************************************************)
\* repDelta with the wrap-around branch one short
repDeltaOffByOne(lastRepCounter, completeCounter) ==
    IF completeCounter >= lastRepCounter
    THEN completeCounter - lastRepCounter
    ELSE 65535 - lastRepCounter + completeCounter

\* lines 991-997: the advance of the top counter, with wrap-around
topDelta(lastTopCounter, topCounter) ==
    IF topCounter >= lastTopCounter
    THEN topCounter - lastTopCounter
    ELSE 65535 - lastTopCounter + topCounter + 1

\* lines 1037-1043: the advance of the complete counter, with wrap-around
repDelta(lastRepCounter, completeCounter) ==
    IF completeCounter >= lastRepCounter
    THEN completeCounter - lastRepCounter
    ELSE 65535 - lastRepCounter + completeCounter + 1

\* trackTop completing at the top without the stop command
trackTopWithoutStop(w, topCounter) ==
    IF w.app.lastTopCounter = Undefined
    THEN [w EXCEPT !.app.lastTopCounter = topCounter]
    ELSE IF topDelta(w.app.lastTopCounter, topCounter) > 0
    THEN LET w1 == recordTopPosition(w,
                       w.app.currentSample.posA, w.app.currentSample.posB)
             w2 == [w1 EXCEPT !.app.lastTopCounter = topCounter]
         IN IF /\ w2.app.stopAtTop
               /\ ~w2.app.isJustLiftMode
               /\ w2.app.targetReps > 0
               /\ w2.app.workingReps = w2.app.targetReps - 1
            THEN completeWorkout(w2)
            ELSE w2
    ELSE w

\* lines 986-1028: "Track top of range"
trackTop(w, topCounter) ==
    IF w.app.lastTopCounter = Undefined
    THEN [w EXCEPT !.app.lastTopCounter = topCounter]
    ELSE IF topDelta(w.app.lastTopCounter, topCounter) > 0
    THEN LET w1 == recordTopPosition(w,
                       w.app.currentSample.posA, w.app.currentSample.posB)
             w2 == [w1 EXCEPT !.app.lastTopCounter = topCounter]
         IN IF /\ w2.app.stopAtTop
               /\ ~w2.app.isJustLiftMode
               /\ w2.app.targetReps > 0
               /\ w2.app.workingReps = w2.app.targetReps - 1
            THEN completeWorkout(stopWorkout(w2))
            ELSE w2
    ELSE w

\* countRep with the warm-up ending one rep early
countRepShortWarmup(w) ==
    LET totalReps == w.app.warmupReps + w.app.workingReps + 1
    IN IF totalReps < w.app.warmupTarget
       THEN [w EXCEPT !.app.warmupReps = @ + 1]
       ELSE LET w1 == [w EXCEPT !.app.workingReps = @ + 1]
            IN IF /\ ~w1.app.stopAtTop
                  /\ ~w1.app.isJustLiftMode
                  /\ w1.app.targetReps > 0
                  /\ w1.app.workingReps >= w1.app.targetReps
               THEN completeWorkout(w1)
               ELSE w1

\* lines 1056-1101: a completed rep is a warm-up rep or a working rep
countRep(w) ==
    LET totalReps == w.app.warmupReps + w.app.workingReps + 1
    IN IF totalReps <= w.app.warmupTarget
       THEN LET w1 == [w EXCEPT !.app.warmupReps = @ + 1]
            IN IF /\ w1.app.warmupReps = w1.app.warmupTarget
                  /\ w1.app.currentWorkout # NoWorkout
                  /\ w1.app.currentWorkout.warmupEndTime = Null
               THEN [w1 EXCEPT !.app.currentWorkout.warmupEndTime = 1]
               ELSE w1
       ELSE LET w1 == [w EXCEPT !.app.workingReps = @ + 1]
            IN IF /\ ~w1.app.stopAtTop
                  /\ ~w1.app.isJustLiftMode
                  /\ w1.app.targetReps > 0
                  /\ w1.app.workingReps >= w1.app.targetReps
               THEN completeWorkout(w1)
               ELSE w1

\* trackComplete keeping the seed as the last complete counter
trackCompleteKeepsLast(w, completeCounter) ==
    IF w.app.lastRepCounter = Undefined
    THEN [w EXCEPT !.app.lastRepCounter = completeCounter]
    ELSE IF repDelta(w.app.lastRepCounter, completeCounter) > 0
    THEN countRep(recordBottomPosition(w,
             w.app.currentSample.posA, w.app.currentSample.posB))
    ELSE w

\* lines 1030-1106: "Track rep complete / bottom of range"
trackComplete(w, completeCounter) ==
    IF w.app.lastRepCounter = Undefined
    THEN [w EXCEPT !.app.lastRepCounter = completeCounter]
    ELSE LET w1 == IF repDelta(w.app.lastRepCounter, completeCounter) > 0
                   THEN countRep(recordBottomPosition(w,
                            w.app.currentSample.posA, w.app.currentSample.posB))
                   ELSE w
         IN [w1 EXCEPT !.app.lastRepCounter = completeCounter]

\* handleRepNotification without the check of lines 981-984
handleRepNotificationUnguarded(w, topCounter, completeCounter) ==
    trackComplete(trackTop(w, topCounter), completeCounter)

\* data carries at least three u16 values: u16[0] and u16[2] are the counters
handleRepNotification(w, topCounter, completeCounter) ==
    IF w.app.currentSample = NoSample \/ w.app.currentWorkout = NoWorkout
    THEN w
    ELSE trackComplete(trackTop(w, topCounter), completeCounter)

(***************************************************************************)
(* Session start. startProgram and startEcho run to their await with the   *)
(* session state already written; the listeners are added after the start  *)
(* write resolved.                                                         *)
(***************************************************************************)
\* device.startProgram / device.startEcho: the start write is queued, or the
\* call throws at once without a connection
deviceStart(w, kind) ==
    IF ~w.device.isConnected
    THEN Note(w, "startFailed")
    ELSE [w EXCEPT !.device.startOp = kind]

\* beginSession leaving the complete counter of the previous session in place
beginSessionKeepsRepCounter(w, isJustLift, reps) ==
    [w EXCEPT !.app.warmupTarget = DefaultWarmupTarget,
              !.app.targetReps = reps,
              !.app.isJustLiftMode = isJustLift,
              !.app.lastTopCounter = Undefined,
              !.app.warmupReps = 0,
              !.app.workingReps = 0,
              !.app.currentWorkout =
                  [id |-> w.obs.sid + 1, justLift |-> isJustLift,
                   targetReps |-> reps, warmupEndTime |-> Null],
              !.obs.ev = @ \cup {"started"},
              !.obs.sid = @ + 1,
              !.obs.seen = FALSE,
              !.obs.advances = 0,
              !.obs.lastComplete = Undefined,
              !.obs.autoStops = 0,
              !.obs.ungated = FALSE,
              !.obs.plain = /\ ~isJustLift
                             /\ reps >= 1
                             /\ ~w.app.stopAtTop
                             /\ w.device.stopOps = <<>>]

\* lines 1219-1240 and 1310-1331: "Set rep targets before starting"
beginSession(w, isJustLift, reps) ==
    [w EXCEPT !.app.warmupTarget = DefaultWarmupTarget,
              !.app.targetReps = reps,
              !.app.isJustLiftMode = isJustLift,
              !.app.lastRepCounter = Undefined,
              !.app.lastTopCounter = Undefined,
              !.app.warmupReps = 0,
              !.app.workingReps = 0,
              !.app.currentWorkout =
                  [id |-> w.obs.sid + 1, justLift |-> isJustLift,
                   targetReps |-> reps, warmupEndTime |-> Null],
              !.obs.ev = @ \cup {"started"},
              !.obs.sid = @ + 1,
              !.obs.seen = FALSE,
              !.obs.advances = 0,
              !.obs.lastComplete = Undefined,
              !.obs.autoStops = 0,
              !.obs.ungated = FALSE,
              !.obs.plain = /\ ~isJustLift
                             /\ reps >= 1
                             /\ ~w.app.stopAtTop
                             /\ w.device.stopOps = <<>>]

startProgram(w, isJustLift, reps) ==
    deviceStart(beginSession(w, isJustLift, reps), "program")

startEcho(w, isJustLift, targetReps) ==
    deviceStart(beginSession(w, isJustLift, targetReps), "echo")

\* after the await: addMonitorListener, addRepListener
startResolved(w) ==
    [w EXCEPT !.device.monitorListeners = @ + 1,
              !.device.repListeners = @ + 1]

(***************************************************************************)
(* Listener dispatch: every registered listener is called in turn.         *)
(***************************************************************************)
RECURSIVE notifyMonitorListeners(_, _, _, _)
notifyMonitorListeners(n, w, sample, t) ==
    IF n = 0 THEN w
    ELSE notifyMonitorListeners(n - 1, updateLiveStats(w, sample, t), sample, t)

RECURSIVE notifyRepListeners(_, _, _, _)
notifyRepListeners(n, w, topCounter, completeCounter) ==
    IF n = 0 THEN w
    ELSE notifyRepListeners(n - 1,
             handleRepNotification(w, topCounter, completeCounter),
             topCounter, completeCounter)

(***************************************************************************)
(* The state machine.                                                      *)
(***************************************************************************)
World == [app |-> app, device |-> device,
          obs |-> [obs EXCEPT !.ev = {}]]

\* the STOP requests in flight that were issued before the current session
\* began: all the pending ones when a session begins, one fewer for each
\* request that leaves the head of the queue (kept by the environment that
\* observes restarts)
StaleStops(w) ==
    IF "started" \in w.obs.ev THEN Len(device.stopOps)
    ELSE IF Len(w.device.stopOps) < Len(device.stopOps)
    THEN LET left == Len(device.stopOps) - Len(w.device.stopOps)
         IN IF obs.staleStops > left THEN obs.staleStops - left ELSE 0
    ELSE obs.staleStops

Becomes(w) ==
    /\ Len(w.device.stopOps) <= MaxPendingStops
    /\ w.app.workingReps <= MaxReps
    /\ app' = w.app
    /\ device' = w.device
    /\ obs' = IF "staleStops" \in DOMAIN w.obs
              THEN [w.obs EXCEPT !.staleStops = StaleStops(w)]
              ELSE w.obs
    /\ now' = IF w.app.autoStopStartTime = Null THEN 0 ELSE now

\* the state the constructor leaves
AppInit ==
    [sectionsShown |-> FALSE,
     stopAtTop |-> FALSE,
     warmupReps |-> 0,
     workingReps |-> 0,
     warmupTarget |-> DefaultWarmupTarget,
     targetReps |-> 0,
     workoutHistory |-> <<>>,
     currentWorkout |-> NoWorkout,
     topPositionsA |-> <<>>,
     bottomPositionsA |-> <<>>,
     topPositionsB |-> <<>>,
     bottomPositionsB |-> <<>>,
     minRepPosA |-> Null,
     maxRepPosA |-> Null,
     minRepPosB |-> Null,
     maxRepPosB |-> Null,
     currentSample |-> NoSample,
     autoStopStartTime |-> Null,
     isJustLiftMode |-> FALSE,
     lastTopCounter |-> Undefined,
     lastRepCounter |-> Undefined]

DeviceInit ==
    [isConnected |-> FALSE,
     monitorPolling |-> FALSE,
     propertyPolling |-> FALSE,
     monitorReadInFlight |-> FALSE,
     monitorListeners |-> 0,
     repListeners |-> 0,
     stopOps |-> <<>>,
     startOp |-> "none"]

Init ==
    /\ app = AppInit
    /\ device = DeviceInit
    /\ now = 0
    /\ obs = [ev |-> {}, sid |-> 0, seen |-> FALSE, advances |-> 0,
              lastComplete |-> Undefined, autoStops |-> 0, plain |-> FALSE,
              dwellClean |-> FALSE, ungated |-> FALSE]

\* updateConnectionStatus(connected): the connect button is enabled, and the
\* program and Echo sections and the disconnect button are hidden or
\* disabled, exactly while the page shows "Disconnected"
updateConnectionStatus(w, connected) ==
    [w EXCEPT !.app.sectionsShown = connected]

\* the user presses Connect: app.connect() -> device.connect()
Connect ==
    /\ ~app.sectionsShown
    /\ ~device.isConnected
    /\ Becomes(updateConnectionStatus(
           [World EXCEPT !.device.isConnected = TRUE], TRUE))

\* the user presses Disconnect: app.disconnect() -> device.disconnect()
Disconnect ==
    /\ app.sectionsShown
    /\ Becomes(updateConnectionStatus(
           IF device.isConnected THEN disconnected(World) ELSE World, FALSE))

\* the platform reports the link lost
LinkLost ==
    /\ device.isConnected
    /\ Becomes(disconnected(World))

\* the user starts a program: Just Lift (reps forced to 0) or a rep target
StartProgram(justLifts, targets) ==
    /\ app.sectionsShown
    /\ obs.sid < MaxSessions
    /\ device.startOp = "none"
    /\ \E isJustLift \in justLifts :
         \E reps \in IF isJustLift THEN {0} ELSE targets \ {0} :
            Becomes(startProgram(World, isJustLift, reps))

\* the user starts Echo mode: Just Lift (target forced to 0) or a target >= 0
StartEcho(justLifts, targets) ==
    /\ app.sectionsShown
    /\ obs.sid < MaxSessions
    /\ device.startOp = "none"
    /\ \E isJustLift \in justLifts :
         \E targetReps \in IF isJustLift THEN {0} ELSE targets :
            Becomes(startEcho(World, isJustLift, targetReps))

\* the start write is acknowledged: polling starts, the app adds its listeners
StartWriteOk ==
    /\ device.isConnected
    /\ device.startOp # "none"
    /\ Becomes(startResolved(
           [World EXCEPT !.device.startOp = "none",
                         !.device.monitorPolling = TRUE,
                         !.device.propertyPolling = TRUE]))

\* the start write fails: the catch block of startProgram / startEcho
StartWriteFail ==
    /\ device.startOp # "none"
    /\ Becomes(Note([World EXCEPT !.device.startOp = "none"], "startFailed"))

ToggleStopAtTop ==
    /\ Becomes([World EXCEPT !.app.stopAtTop = ~@, !.obs.plain = FALSE])

\* a monitor read resolves and its sample goes to the monitor listeners: a
\* read of the running poll loop or, while a STOP has the loops paused, the
\* one read that was already in flight
MonitorRead(samples) ==
    /\ device.isConnected
    /\ \/ device.monitorPolling /\ device.stopOps = <<>>
       \/ device.monitorReadInFlight
    /\ \E sample \in samples :
         LET w0 == [World EXCEPT !.device.monitorReadInFlight = FALSE]
             w1 == notifyMonitorListeners(w0.device.monitorListeners, w0, sample, now)
             heard == app.isJustLiftMode /\ device.monitorListeners > 0
         IN Becomes(
              [w1 EXCEPT
                 !.device.monitorReadInFlight = FALSE,
                 !.obs.ungated =
                     @ \/ (/\ ~app.isJustLiftMode
                           /\ app.currentWorkout # NoWorkout
                           /\ device.monitorListeners > 0
                           /\ InDangerZone(app, sample)),
                 !.obs.dwellClean =
                     IF ~heard THEN @
                     ELSE IF app.autoStopStartTime = Null
                     THEN InDangerZone(app, sample)
                     ELSE @ /\ InDangerZone(app, sample)])

\* a rep notification arrives and goes to the rep listeners
RepNotify(counters) ==
    /\ device.isConnected
    /\ device.repListeners > 0
    /\ \E topCounter \in counters, completeCounter \in counters :
         LET w0 == World
             processed == /\ app.currentSample # NoSample
                          /\ app.currentWorkout # NoWorkout
             w1 == notifyRepListeners(w0.device.repListeners, w0,
                                      topCounter, completeCounter)
         IN Becomes(
              IF processed
              THEN [w1 EXCEPT
                      !.obs.ev = IF app.lastTopCounter \notin {Undefined, topCounter}
                                 THEN @ \cup {"topEvent"} ELSE @,
                      !.obs.seen = TRUE,
                      !.obs.lastComplete = completeCounter,
                      !.obs.advances =
                          IF obs.lastComplete \notin {Undefined, completeCounter}
                          THEN @ + 1 ELSE @]
              ELSE IF "ignored" \in DOMAIN obs
              THEN [w1 EXCEPT !.obs.ignored = @ \/ device.repListeners > 1,
                              !.obs.ev = @ \cup {"repIgnored"}]
              ELSE w1)

\* the user presses STOP
StopButton ==
    /\ Becomes([stopWorkout(World) EXCEPT !.obs.plain = FALSE])

\* the STOP write at the head of the queue is acknowledged
StopWriteOk ==
    /\ device.isConnected
    /\ device.stopOps # <<>>
    /\ Becomes(stopWorkoutResolved(
           Note([World EXCEPT !.device.stopOps = Tail(@),
                              !.device.monitorReadInFlight =
                                  @ /\ Len(device.stopOps) > 1],
                "stopWritten")))

\* the STOP write fails: retried after the backoff, and after the last attempt
\* the transport forces a disconnect and the request fails
StopWriteFail ==
    /\ device.isConnected
    /\ device.stopOps # <<>>
    /\ Becomes(stopWriteFailed(World))

\* time passes; only the gate reads the clock, and only while it is armed
Tick ==
    /\ app.autoStopStartTime # Null
    /\ now < MaxTime
    /\ now' = now + 1
    /\ app' = app
    /\ device' = device
    /\ obs' = [obs EXCEPT !.ev = {}]

(***************************************************************************)
(* Specifications. Each one is the program under one environment: the      *)
(* actions are the same, the inputs differ.                                *)
(***************************************************************************)
\* Rep detection: every kind of session, restarts, STOP, stop-at-top; one
\* position (positions do not influence rep counting) and a reliable link.
NextReps ==
    \/ Connect
    \/ StartProgram(BOOLEAN, 1..MaxTarget)
    \/ StartEcho(BOOLEAN, 0..MaxTarget)
    \/ StartWriteOk
    \/ ToggleStopAtTop
    \/ MonitorRead(RepSamples)
    \/ RepNotify(CounterVals)
    \/ StopButton
    \/ StopWriteOk

SpecReps == Init /\ [][NextReps]_vars

\* Auto-stop gate: Just-Lift sessions with the clock running.
NextGate ==
    \/ Connect
    \/ StartProgram({TRUE}, {})
    \/ StartWriteOk
    \/ MonitorRead(Samples)
    \/ RepNotify(CounterVals)
    \/ StopWriteOk
    \/ Tick

SpecGate == Init /\ [][NextGate]_vars

\* Auto-stop gate with both kinds of session: Just Lift and fixed-rep.
NextMixed ==
    \/ Connect
    \/ StartProgram(BOOLEAN, {1})
    \/ StartWriteOk
    \/ MonitorRead(Samples)
    \/ RepNotify(CounterVals)
    \/ StopWriteOk
    \/ Tick

SpecMixed == Init /\ [][NextMixed]_vars

\* Restarts: sessions started while STOP requests are in flight; obs also
\* keeps how many of the requests in flight are older than the session.
InitRestart ==
    /\ app = AppInit
    /\ device = DeviceInit
    /\ now = 0
    /\ obs = [ev |-> {}, sid |-> 0, seen |-> FALSE, advances |-> 0,
              lastComplete |-> Undefined, autoStops |-> 0, plain |-> FALSE,
              dwellClean |-> FALSE, ungated |-> FALSE, staleStops |-> 0]

NextRestart ==
    \/ Connect
    \/ StartProgram({FALSE}, {1})
    \/ StartWriteOk
    \/ ToggleStopAtTop
    \/ MonitorRead(RepSamples)
    \/ RepNotify(CounterVals)
    \/ StopButton
    \/ StopWriteOk

SpecRestart == InitRestart /\ [][NextRestart]_vars

\* STOP path: an unreliable link (failed writes, disconnects, reconnects).
NextStop ==
    \/ Connect
    \/ Disconnect
    \/ LinkLost
    \/ StartProgram({FALSE}, 1..MaxTarget)
    \/ StartWriteOk
    \/ StartWriteFail
    \/ ToggleStopAtTop
    \/ MonitorRead(RepSamples)
    \/ RepNotify(CounterVals)
    \/ StopButton
    \/ StopWriteOk
    \/ StopWriteFail

SpecStop == Init /\ [][NextStop]_vars

\* Counter arithmetic: the last-counter fields hold any value of DeltaVals,
\* and every notification's counters are compared with them as the handler
\* does; obs keeps the operands and the two deltas.
InitDelta ==
    /\ \E prev \in DeltaVals :
         app = [AppInit EXCEPT !.lastTopCounter = prev, !.lastRepCounter = prev]
    /\ device = DeviceInit
    /\ now = 0
    /\ obs = [prev |-> Undefined, counter |-> Undefined,
              topDelta |-> 0, repDelta |-> 0]

ReadCounters ==
    /\ \E counter \in DeltaVals :
         /\ obs' = [prev |-> app.lastTopCounter, counter |-> counter,
                    topDelta |-> topDelta(app.lastTopCounter, counter),
                    repDelta |-> repDelta(app.lastRepCounter, counter)]
         /\ app' = [app EXCEPT !.lastTopCounter = counter,
                               !.lastRepCounter = counter]
    /\ UNCHANGED <<device, now>>

SpecDelta == InitDelta /\ [][ReadCounters]_vars

(***************************************************************************)
(* GattTransport (design document, section 4.3), on its own: the operation  *)
(* queue, the wire and the disconnect path of one link. Here device is the  *)
(* transport [isConnected, queue, inFlight, sent, hook] and obs records the *)
(* wire, the number of operations submitted, those submitted while the link *)
(* was busy, the operations failed by a disconnect, the disconnect triggers,*)
(* the calls of onDisconnect and whether an exception escaped the transport.*)
(* An operation is named by its submission number.                          *)
(***************************************************************************)
\* queueGattOperation(operation): the operation joins the tail of the queue
queueGattOperation(d, op) == [d EXCEPT !.queue = Append(@, op)]

\* the queue processor starting an operation while another is in flight
mayStartNextOverlapping(d) == d.isConnected /\ d.queue # <<>>

\* the queue processor: the next operation starts only when none is in flight
mayStartNext(d) == d.isConnected /\ d.queue # <<>> /\ d.inFlight = {}

\* the operation at the head of the queue goes in flight
startNext(d) ==
    [d EXCEPT !.inFlight = @ \cup {Head(d.queue)},
              !.queue = Tail(@),
              !.sent[Head(d.queue)] = 0]

\* the operation resolves (acknowledged or failed) and leaves the link free
resolve(d, op) == [d EXCEPT !.inFlight = @ \ {op}]

\* this.onDisconnect(): the callback is called, and may throw
callOnDisconnect(t) ==
    [t EXCEPT !.obs.calls = @ + 1,
              !.obs.escaped = t.device.hook = "throws"]

\* try { this.onDisconnect() } catch: the exception is logged, not rethrown
tryOnDisconnect(t) ==
    IF t.device.hook = "none"
    THEN t
    ELSE [callOnDisconnect(t) EXCEPT !.obs.escaped = FALSE]

\* the disconnect path running its cleanup and the callback on every call
transportDisconnectUnguarded(t) ==
    LET cleaned == [t EXCEPT
                      !.device.isConnected = FALSE,
                      !.device.queue = <<>>,
                      !.device.inFlight = {},
                      !.obs.failed = @ \cup t.device.inFlight
                                       \cup {t.device.queue[i] :
                                                i \in DOMAIN t.device.queue}]
    IN tryOnDisconnect(cleaned)

\* The single disconnect path (manual disconnect() and the platform event).
\* It does nothing once the link is down; otherwise it marks the link down,
\* clears the queue failing its operations with DisconnectedError, and then
\* calls onDisconnect inside try/catch, so that an exception of the callback
\* is logged and goes no further.
transportDisconnect(t) ==
    IF ~t.device.isConnected
    THEN t
    ELSE LET cleaned == [t EXCEPT
                           !.device.isConnected = FALSE,
                           !.device.queue = <<>>,
                           !.device.inFlight = {},
                           !.obs.failed = @ \cup t.device.inFlight
                                            \cup {t.device.queue[i] :
                                                     i \in DOMAIN t.device.queue}]
         IN tryOnDisconnect(cleaned)

Transport == [device |-> device, obs |-> obs]

TransportBecomes(t) ==
    /\ device' = t.device
    /\ obs' = t.obs
    /\ UNCHANGED <<app, now>>

\* a connected link with an empty queue; the owner has installed no
\* onDisconnect callback, one that returns, or one that throws
InitTransport ==
    /\ app = AppInit
    /\ now = 0
    /\ \E hook \in {"none", "returns", "throws"} :
         device = [isConnected |-> TRUE, queue |-> <<>>, inFlight |-> {},
                   sent |-> [op \in 1..MaxOps |-> 0], hook |-> hook]
    /\ obs = [wire |-> <<>>, submitted |-> 0, waited |-> {}, failed |-> {},
              manual |-> 0, platform |-> 0, calls |-> 0, escaped |-> FALSE]

\* a caller submits a write (callers do not wait for one another)
SubmitWrite ==
    /\ device.isConnected
    /\ obs.submitted < MaxOps
    /\ TransportBecomes(
          [Transport EXCEPT
             !.device = queueGattOperation(@, obs.submitted + 1),
             !.obs.submitted = @ + 1,
             !.obs.waited = IF device.inFlight # {} \/ device.queue # <<>>
                            THEN @ \cup {obs.submitted + 1} ELSE @])

\* the queue processor takes the next operation
StartNextOp ==
    /\ mayStartNext(device)
    /\ TransportBecomes(
          [Transport EXCEPT
             !.device = startNext(@),
             !.obs.wire = Append(@, [op |-> Head(device.queue),
                                     what |-> "start"])])

\* an operation in flight puts its next byte on the wire
WireByte ==
    \E op \in device.inFlight :
       /\ device.sent[op] < FrameLen
       /\ TransportBecomes(
             [Transport EXCEPT
                !.device.sent[op] = @ + 1,
                !.obs.wire = Append(@, [op |-> op, what |-> "byte"])])

\* the peer acknowledges a complete write
WriteAcked ==
    \E op \in device.inFlight :
       /\ device.sent[op] = FrameLen
       /\ TransportBecomes(
             [Transport EXCEPT
                !.device = resolve(@, op),
                !.obs.wire = Append(@, [op |-> op, what |-> "resolved"])])

\* a write fails with a transport error, at any point
WriteFailed ==
    \E op \in device.inFlight :
       TransportBecomes(
          [Transport EXCEPT
             !.device = resolve(@, op),
             !.obs.wire = Append(@, [op |-> op, what |-> "resolved"])])

\* disconnect() is called (any number of times)
ManualDisconnect ==
    /\ obs.manual < MaxTriggers
    /\ TransportBecomes(
          transportDisconnect([Transport EXCEPT !.obs.manual = @ + 1]))

\* the platform reports the link lost (possibly after a manual disconnect)
PlatformDisconnect ==
    /\ obs.platform < MaxTriggers
    /\ TransportBecomes(
          transportDisconnect([Transport EXCEPT !.obs.platform = @ + 1]))

NextTransport ==
    \/ SubmitWrite
    \/ StartNextOp
    \/ WireByte
    \/ WriteAcked
    \/ WriteFailed
    \/ ManualDisconnect
    \/ PlatformDisconnect

SpecTransport == InitTransport /\ [][NextTransport]_vars

(***************************************************************************)
(* Properties.                                                             *)
(***************************************************************************)

\* the entries of the wire log that start an operation or carry its bytes
OnWire(i) == obs.wire[i].what \in {"start", "byte"}

\* C11: at most one GATT operation is in flight; nothing of another operation
\* is on the wire between the start of an operation and its resolution; and
\* operations start in submission order.
SingleFlightFifo ==
    /\ Cardinality(device.inFlight) <= 1
    /\ \A i, j \in DOMAIN obs.wire :
          (i < j /\ OnWire(i) /\ OnWire(j) /\ obs.wire[i].op # obs.wire[j].op)
             => \E k \in (i + 1)..(j - 1) :
                   obs.wire[k] = [op |-> obs.wire[i].op, what |-> "resolved"]
    /\ \A i, j \in DOMAIN obs.wire :
          (i < j /\ obs.wire[i].what = "start" /\ obs.wire[j].what = "start")
             => obs.wire[i].op < obs.wire[j].op
    /\ \A op \in device.inFlight :
          \A q \in 1..Len(device.queue) : op < device.queue[q]

\* a write submitted while another was in flight has put its bytes on the
\* wire after the first resolved
QueuedWriteSent ==
    /\ 2 \in obs.waited
    /\ \E i \in DOMAIN obs.wire : obs.wire[i] = [op |-> 2, what |-> "byte"]
    /\ \E i \in DOMAIN obs.wire : obs.wire[i] = [op |-> 1, what |-> "byte"]

AutoStopOnlyAfterCleanDwell ==
    "autoStop" \in obs.ev => obs.dwellClean /\ now >= AutoStopDwell

\* C3: a Just-Lift sample in the danger zone of a cable with a calibrated
\* range above the noise floor leaves the gate armed.
DangerZoneArms ==
    ("jlSample" \in obs.ev /\ InDangerZone(app, app.currentSample))
        => app.autoStopStartTime # Null

\* C4: the gate triggers at most once in a session.
AutoStopAtMostOnce == obs.autoStops <= 1

\* C5: a Just-Lift sample outside the danger zone leaves the gate disarmed,
\* so that the dwell restarts from zero on re-entry.
LeavingDisarms ==
    ("jlSample" \in obs.ev /\ ~InDangerZone(app, app.currentSample))
        => app.autoStopStartTime = Null

\* the workoutHistory entries of the current session
SessionEntries ==
    { i \in DOMAIN app.workoutHistory : app.workoutHistory[i].id = obs.sid }

\* C6: in a fixed-rep session with target N >= 1 (stop-at-top off, no stop
\* requested), the session is archived exactly once, with N reps, by the
\* notification that is the (3 + N)-th to advance the complete counter after
\* the seed, and not before.
FixedRepCompletesOnce ==
    obs.plain =>
       /\ obs.advances <= DefaultWarmupTarget + app.targetReps
       /\ obs.advances < DefaultWarmupTarget + app.targetReps
             => SessionEntries = {} /\ app.currentWorkout.id = obs.sid
       /\ obs.advances = DefaultWarmupTarget + app.targetReps
             => /\ Cardinality(SessionEntries) = 1
                /\ \A i \in SessionEntries :
                      app.workoutHistory[i].reps = app.targetReps
                /\ app.currentWorkout = NoWorkout

\* a second fixed-rep session with the largest target has been completed
FixedRepCompleted ==
    /\ obs.plain /\ obs.sid = MaxSessions /\ app.targetReps = MaxTarget
    /\ obs.advances = DefaultWarmupTarget + MaxTarget
    /\ SessionEntries # {}

\* C7: for all 16-bit prev and next, the delta computed for the top counter
\* and for the complete counter is (next - prev) mod 65536; in particular
\* delta(65534, 2) = 4, delta(5, 5) = 0 and delta(0, 65535) = 65535.
DeltaIsModular ==
    /\ obs.counter # Undefined =>
          /\ obs.topDelta = (obs.counter - obs.prev) % 65536
          /\ obs.repDelta = (obs.counter - obs.prev) % 65536
    /\ (obs.prev = 65534 /\ obs.counter = 2) => obs.topDelta = 4 /\ obs.repDelta = 4
    /\ (obs.prev = 5 /\ obs.counter = 5) => obs.topDelta = 0 /\ obs.repDelta = 0
    /\ (obs.prev = 0 /\ obs.counter = 65535) =>
          obs.topDelta = 65535 /\ obs.repDelta = 65535

\* a wrapped pair has been computed
DeltaWrapSeen == obs.prev = 65534 /\ obs.counter = 2 /\ obs.repDelta = 4

\* C8: the first rep notification processed in a session records no position,
\* counts no rep and completes nothing.
FirstNotificationOnlySeeds ==
    [][(~obs.seen /\ obs'.seen) =>
          /\ app'.topPositionsA = app.topPositionsA
          /\ app'.topPositionsB = app.topPositionsB
          /\ app'.bottomPositionsA = app.bottomPositionsA
          /\ app'.bottomPositionsB = app.bottomPositionsB
          /\ app'.warmupReps = app.warmupReps
          /\ app'.workingReps = app.workingReps
          /\ app'.workoutHistory = app.workoutHistory
          /\ app'.currentWorkout = app.currentWorkout
          /\ app'.lastTopCounter # Undefined
          /\ app'.lastRepCounter # Undefined]_vars

\* the first notification of a second session has been processed, after
\* working reps were counted and archived in the first
SecondSessionSeeded ==
    /\ obs.seen /\ obs.sid = MaxSessions /\ obs.advances = 0
    /\ app.workoutHistory # <<>>
    /\ Head(app.workoutHistory).reps >= 1
    /\ app.lastRepCounter # Undefined

\* C9: warmupReps never exceeds warmupTarget, and a working rep is counted
\* only once the warm-up is full.
WarmupBeforeWorking ==
    /\ app.warmupReps <= app.warmupTarget
    /\ app.workingReps > 0 => app.warmupReps = app.warmupTarget

\* working reps have been counted after a full warm-up
WorkingRepsCounted ==
    app.workingReps = MaxTarget /\ app.warmupReps = DefaultWarmupTarget

RepCounterInitial ==
    /\ app.lastTopCounter = Undefined /\ app.lastRepCounter = Undefined
    /\ app.warmupReps = 0 /\ app.workingReps = 0
    /\ app.topPositionsA = <<>> /\ app.bottomPositionsA = <<>>
    /\ app.topPositionsB = <<>> /\ app.bottomPositionsB = <<>>
    /\ app.minRepPosA = Null /\ app.maxRepPosA = Null
    /\ app.minRepPosB = Null /\ app.maxRepPosB = Null

\* C13: after a disconnect (manual or unexpected) no session is active and
\* RepCounterState is in its initial condition.
DisconnectInvalidatesSession ==
    "linkDown" \in obs.ev => app.currentWorkout = NoWorkout /\ RepCounterInitial

\* C14: after a failed start or a failed stop no session is active.
FailedActionLeavesIdle ==
    ("startFailed" \in obs.ev \/ ("stopEnded" \in obs.ev /\ "stopWritten" \notin obs.ev))
        => app.currentWorkout = NoWorkout

\* C15: after every completion RepCounterState is in its initial condition.
CompletionResetsCounters ==
    "completed" \in obs.ev => RepCounterInitial

\* C16: a completion leaves no listener registered, and at most one rep
\* listener and one monitor listener are registered at any time.
AtMostOneListenerEach ==
    /\ "completed" \in obs.ev =>
          device.monitorListeners = 0 /\ device.repListeners = 0
    /\ device.monitorListeners <= 1 /\ device.repListeners <= 1

\* the working reps among n completed reps of a session
WorkingAmong(n) == IF n > DefaultWarmupTarget THEN n - DefaultWarmupTarget ELSE 0

\* C17: every completion archives one entry for the active session, with the
\* working reps counted up to that moment: the completed reps after the
\* warm-up, the one that reaches the target included, and a rep reported by
\* the notification whose top event completes a stop-at-top session excluded.
ArchivesCountedReps ==
    [][("completed" \in obs'.ev) =>
          /\ Len(app'.workoutHistory) = Len(app.workoutHistory) + 1
          /\ Head(app'.workoutHistory).id = app.currentWorkout.id
          /\ Head(app'.workoutHistory).reps =
                IF "topEvent" \in obs'.ev /\ app.stopAtTop
                THEN WorkingAmong(obs.advances)
                ELSE WorkingAmong(obs'.advances)]_vars

\* a session with target MaxTarget has been stopped and archived with fewer
\* working reps than the target
ArchivedBelowTarget ==
    /\ "completed" \in obs.ev /\ "stopWritten" \in obs.ev
    /\ app.targetReps = MaxTarget
    /\ Head(app.workoutHistory).reps = MaxTarget - 1

\* C18: a session start leaves RepCounterState in its initial condition and
\* the arming timestamp cleared.
StartResetsCounters ==
    "started" \in obs.ev => RepCounterInitial /\ app.autoStopStartTime = Null

\* C19: while the active session is a fixed-rep session, or no session is
\* active, no step arms the gate (sets the arming timestamp) and none
\* triggers an auto-stop.
GateOnlyInJustLift ==
    [][(app.currentWorkout = NoWorkout \/ ~app.currentWorkout.justLift) =>
          /\ "autoStop" \notin obs'.ev
          /\ app'.autoStopStartTime \in {app.autoStopStartTime, Null}]_vars

\* a fixed-rep session has received a sample in the danger zone of its
\* calibrated range and the gate is not armed
FixedRepInDangerZone ==
    /\ obs.ungated /\ app.currentWorkout # NoWorkout
    /\ ~app.currentWorkout.justLift
    /\ app.autoStopStartTime = Null

\* neither cable has a calibrated range above the noise floor
NoQualifyingCable ==
    /\ \/ app.minRepPosA = Null \/ app.maxRepPosA = Null
       \/ app.maxRepPosA - app.minRepPosA <= MinRangeThreshold
    /\ \/ app.minRepPosB = Null \/ app.maxRepPosB = Null
       \/ app.maxRepPosB - app.minRepPosB <= MinRangeThreshold

\* C20: on a Just-Lift sample with no cable calibrated above the noise floor,
\* no arming timestamp is held and no stop is triggered.
GateIdleWithoutRange ==
    ("jlSample" \in obs.ev /\ NoQualifyingCable)
        => app.autoStopStartTime = Null /\ "autoStop" \notin obs.ev

\* C21: while a session is active, each per-cable top and bottom buffer holds
\* at most 2 entries in warm-up (warmupReps + workingReps < warmupTarget) and
\* at most 3 entries in the working phase.
WindowWithinCapacity ==
    app.currentWorkout # NoWorkout =>
        LET cap == IF app.warmupReps + app.workingReps < app.warmupTarget
                   THEN 2 ELSE 3
        IN /\ Len(app.topPositionsA) <= cap /\ Len(app.topPositionsB) <= cap
           /\ Len(app.bottomPositionsA) <= cap
           /\ Len(app.bottomPositionsB) <= cap

\* v is exactly the arithmetic mean of a non-empty arr (Null for an empty one)
IsExactMean(v, arr) ==
    IF arr = <<>> THEN v = Null ELSE v # Null /\ v * Len(arr) = SeqSum(arr)

\* v is the arithmetic mean of arr rounded to the nearest integer, halves up
IsRoundedMean(v, arr) ==
    IF arr = <<>> THEN v = Null
    ELSE /\ v # Null
         /\ 2 * Len(arr) * v <= 2 * SeqSum(arr) + Len(arr)
         /\ 2 * SeqSum(arr) + Len(arr) < 2 * Len(arr) * v + 2 * Len(arr)

\* C22 as stated: the calibrated max (min) of each cable is exactly the
\* arithmetic mean of that cable's top (bottom) buffer.
CalibratedIsExactMean ==
    /\ IsExactMean(app.maxRepPosA, app.topPositionsA)
    /\ IsExactMean(app.maxRepPosB, app.topPositionsB)
    /\ IsExactMean(app.minRepPosA, app.bottomPositionsA)
    /\ IsExactMean(app.minRepPosB, app.bottomPositionsB)

\* C22 amended: the calibrated max (min) of each cable is the arithmetic mean
\* of that cable's top (bottom) buffer rounded to the nearest integer.
CalibratedIsRoundedMean ==
    /\ IsRoundedMean(app.maxRepPosA, app.topPositionsA)
    /\ IsRoundedMean(app.maxRepPosB, app.topPositionsB)
    /\ IsRoundedMean(app.minRepPosA, app.bottomPositionsA)
    /\ IsRoundedMean(app.minRepPosB, app.bottomPositionsB)

\* a buffer of three entries whose mean has a fraction above one half
MeanRoundedUp ==
    /\ Len(app.topPositionsA) = 3
    /\ (SeqSum(app.topPositionsA) % 3) = 2
    /\ app.maxRepPosA # Null

(***************************************************************************)
(* Frame builders (protocol.js, modes.js).  A frame is a sequence of       *)
(* bytes; byte offset o of the code is element o + 1.  A builder yields    *)
(* [threw, frame]: threw when a validation helper raised, and then no      *)
(* frame.  Fractional numbers are carried as num / den.                    *)
(***************************************************************************)
PROGRAM_MAX_KG == 100
PROGRAM_MIN_KG == 0
PROGRESSION_MIN_KG == 0 - 3
PROGRESSION_MAX_KG == 3
PROGRAM_MAX_REPS == 100
PROGRAM_MIN_REPS == 1
ECHO_LEVEL_MIN == 0
ECHO_LEVEL_MAX == 3
ECHO_PERCENT_MIN == 0
ECHO_PERCENT_MAX == 150
ECHO_REPS_MIN == 0
ECHO_REPS_MAX == 30
COLOR_BRIGHTNESS_MIN == 0
COLOR_BRIGHTNESS_MAX == 1
COLOR_CHANNEL_MIN == 0
COLOR_CHANNEL_MAX == 255
COLOR_COUNT_REQUIRED == 3

\* an optional property of a parameter object: absent, null or a number
Absent == [tag |-> "undefined", v |-> 0]
IsNull == [tag |-> "null", v |-> 0]
Given(v) == [tag |-> "num", v |-> v]

RECURSIVE Pow2(_)
Pow2(k) == IF k = 0 THEN 1 ELSE 2 * Pow2(k - 1)

Zeros(n) == [i \in 1..n |-> 0]

\* typed-array store of bytes at byte offset off
Write(frame, off, bytes) ==
    [i \in 1..Len(frame) |->
        IF i > off /\ i <= off + Len(bytes) THEN bytes[i - off] ELSE frame[i]]

\* Uint8Array element store: the value modulo 256
ToUint8(v) == v % 256

U16LE(v) == <<v % 256, (v \div 256) % 256>>
I16LE(v) == U16LE((v + 65536) % 65536)
U32LE(v) == <<v % 256, (v \div 256) % 256, (v \div 65536) % 256,
              (v \div 16777216) % 256>>

\* floor(log2(num / den)) for num, den > 0
RECURSIVE ExpUp(_, _, _)
ExpUp(num, den, e) ==
    IF den * 2 <= num THEN ExpUp(num, den * 2, e + 1) ELSE e
RECURSIVE ExpDown(_, _, _)
ExpDown(num, den, e) ==
    IF num < den THEN ExpDown(num * 2, den, e - 1) ELSE e
Exponent(num, den) ==
    IF num >= den THEN ExpUp(num, den, 0) ELSE ExpDown(num, den, 0)

\* num * 2^k / den rounded to the nearest integer, ties to even (k > 0)
RECURSIVE RoundScaled(_, _, _)
RoundScaled(num, den, k) ==
    IF k > 0 /\ den % 2 = 0 THEN RoundScaled(num, den \div 2, k - 1)
    ELSE LET n == num * Pow2(k)
             q == n \div den
             r == n % den
         IN IF 2 * r > den \/ (2 * r = den /\ q % 2 = 1) THEN q + 1 ELSE q

\* DataView.setFloat32(off, num / den, true): IEEE-754 single, little-endian
F32LE(num, den) ==
    IF num = 0 THEN <<0, 0, 0, 0>>
    ELSE LET sign == IF num < 0 THEN 1 ELSE 0
             mag == IF num < 0 THEN 0 - num ELSE num
             e0 == Exponent(mag, den)
             m0 == RoundScaled(mag, den, 23 - e0)
             e == IF m0 = Pow2(24) THEN e0 + 1 ELSE e0
             frac == IF m0 = Pow2(24) THEN 0 ELSE m0 - Pow2(23)
             biased == e + 127
         IN <<frac % 256, (frac \div 256) % 256,
              (biased % 2) * 128 + frac \div 65536,
              sign * 128 + biased \div 2>>

\* assertRange raises: the value num / den lies outside [min, max]
assertRangeNoMax(num, den, min, max) == num < min * den

assertRangeExclusive(num, den, min, max) ==
    num <= min * den \/ num >= max * den

assertRange(num, den, min, max) == num < min * den \/ num > max * den

\* assertRange on an optional property that the builder checks only when it
\* is neither undefined nor null
assertRangeIfGiven(opt, den, min, max) ==
    opt.tag = "num" /\ assertRange(opt.v, den, min, max)

\* assertEnum raises: allowed.includes(value) is false
assertEnum(value, allowed) == value \notin allowed

\* assertColorArray raises (colors is an array of objects with r, g, b)
assertColorArray(colors) ==
    \/ Len(colors) # COLOR_COUNT_REQUIRED
    \/ \E i \in 1..Len(colors) :
          \/ assertRange(colors[i].r, 1, COLOR_CHANNEL_MIN, COLOR_CHANNEL_MAX)
          \/ assertRange(colors[i].g, 1, COLOR_CHANNEL_MIN, COLOR_CHANNEL_MAX)
          \/ assertRange(colors[i].b, 1, COLOR_CHANNEL_MIN, COLOR_CHANNEL_MAX)

Threw == [threw |-> TRUE, frame |-> <<>>]
Built(frame) == [threw |-> FALSE, frame |-> frame]

buildInitCommand == Built(<<10, 0, 0, 0>>)

buildInitPreset ==
    Built(<<17, 0, 0, 0, 0, 0, 0, 0, 0, 0, 0, 0, 205, 204, 204, 62,
            255, 0, 76, 255, 35, 140, 255, 140, 140,
            255, 0, 76, 255, 35, 140, 255, 140, 140>>)

\* one 32-byte mode profile block, its twelve fields in offset order
ProfileBlock(u0, u2, f4, u8, uA, fC, i10, i12, f14, i18, i1A, f1C) ==
    U16LE(u0) \o U16LE(u2) \o F32LE(f4, 1) \o U16LE(u8) \o U16LE(uA)
    \o F32LE(fC, 1) \o I16LE(i10) \o I16LE(i12) \o F32LE(f14, 1)
    \o I16LE(i18) \o I16LE(i1A) \o F32LE(f1C, 1)

getModeProfile(mode) ==
    CASE mode \in {0, 4} ->
           ProfileBlock(0, 20, 3, 75, 600, 50, 0 - 1300, 0 - 1200, 100,
                        0 - 260, 0 - 110, 0)
      [] mode = 1 ->
           ProfileBlock(50, 450, 10, 500, 600, 50, 0 - 700, 0 - 550, 1,
                        0 - 100, 0 - 50, 1)
      [] mode = 2 ->
           ProfileBlock(250, 350, 7, 450, 600, 50, 0 - 900, 0 - 700, 70,
                        0 - 100, 0 - 50, 14)
      [] mode = 3 ->
           ProfileBlock(150, 250, 7, 350, 450, 50, 0 - 900, 0 - 700, 70,
                        0 - 100, 0 - 50, 28)
      [] OTHER -> Zeros(32)

\* gain and cap of an Echo level: gain in thousandths, cap in units
getEchoParams(level, eccentricPct) ==
    LET gain == CASE level = 1 -> 1250 [] level = 2 -> 1667
                  [] level = 3 -> 3333 [] OTHER -> 1000
        cap == CASE level = 1 -> 40 [] level = 2 -> 30
                 [] level = 3 -> 15 [] OTHER -> 50
    IN [eccentricPct |-> eccentricPct, concentricPct |-> 50,
        gain |-> gain, cap |-> cap]

\* const modeToCheck = params.isJustLift ? params.baseMode : params.mode
modeToCheck(params) ==
    IF params.isJustLift THEN params.baseMode ELSE params.mode

\* the profile taken from params.mode whatever the kind of program
profileModeIgnoresBase(params) == params.mode

\* const profileMode = params.isJustLift ? params.baseMode : params.mode
profileMode(params) ==
    IF params.isJustLift THEN params.baseMode ELSE params.mode

\* perCableKg, effectiveKg and progressionKg are in halves of a kilogram
buildProgramParams(params) ==
    IF \/ assertRange(params.perCableKg, 2, PROGRAM_MIN_KG, PROGRAM_MAX_KG)
       \/ assertRange(params.effectiveKg, 2, PROGRAM_MIN_KG + 10,
                      PROGRAM_MAX_KG + 10)
       \/ assertRangeIfGiven(params.progressionKg, 2, PROGRESSION_MIN_KG,
                             PROGRESSION_MAX_KG)
       \/ (~params.isJustLift /\
             assertRange(params.reps, 1, PROGRAM_MIN_REPS, PROGRAM_MAX_REPS))
       \/ assertEnum(modeToCheck(params), {0, 1, 2, 3, 4})
    THEN Threw
    ELSE LET f0 == Write(Zeros(96), 0, <<4, 0, 0, 0>>)
             f1 == Write(f0, 4, <<IF params.isJustLift THEN 255
                                  ELSE ToUint8(params.reps + 3)>>)
             f2 == Write(f1, 5, <<3, 3, 0>>)
             f3 == Write(Write(Write(f2, 8, F32LE(5, 1)), 12, F32LE(5, 1)),
                         28, F32LE(5, 1))
             f4 == Write(f3, 20, <<250, 0, 250, 0, 200, 0, 30, 0>>)
             f5 == Write(f4, 36, <<250, 0, 250, 0, 200, 0, 30, 0>>)
             f6 == Write(f5, 44, <<250, 0, 80, 0>>)
             f7 == Write(f6, 48, getModeProfile(profileMode(params)))
             f8 == Write(f7, 84, F32LE(params.effectiveKg, 2))
             f9 == Write(f8, 88, F32LE(params.perCableKg, 2))
             progression == IF params.progressionKg.tag = "num"
                            THEN params.progressionKg.v ELSE 0
         IN Built(Write(f9, 92, F32LE(progression, 2)))

buildEchoControl(params) ==
    IF \/ assertRange(params.level, 1, ECHO_LEVEL_MIN, ECHO_LEVEL_MAX)
       \/ assertRange(params.eccentricPct, 1, ECHO_PERCENT_MIN,
                      ECHO_PERCENT_MAX)
       \/ assertRangeIfGiven(params.warmupReps, 1, ECHO_REPS_MIN,
                             ECHO_REPS_MAX)
       \/ (~params.isJustLift /\
             assertRangeIfGiven(params.targetReps, 1, ECHO_REPS_MIN,
                                ECHO_REPS_MAX))
    THEN Threw
    ELSE LET f0 == Write(Zeros(32), 0, U32LE(78))
             \* frame[0x04] = params.warmupReps || 3
             warmup == IF params.warmupReps.tag = "num" /\
                          params.warmupReps.v # 0
                       THEN params.warmupReps.v ELSE 3
             f1 == Write(f0, 4, <<ToUint8(warmup)>>)
             \* params.targetReps !== undefined ? params.targetReps : 2
             target == CASE params.isJustLift -> 255
                         [] params.targetReps.tag = "undefined" -> 2
                         [] params.targetReps.tag = "null" -> 0
                         [] OTHER -> ToUint8(params.targetReps.v)
             f2 == Write(f1, 5, <<target>>)
             f3 == Write(f2, 6, U16LE(0))
             echoParams == getEchoParams(params.level, params.eccentricPct)
             f4 == Write(f3, 8, U16LE(echoParams.eccentricPct))
             f5 == Write(f4, 10, U16LE(echoParams.concentricPct))
             f6 == Write(f5, 12, F32LE(1, 10))
             f7 == Write(f6, 16, F32LE(echoParams.gain, 1000))
             f8 == Write(f7, 20, F32LE(echoParams.cap, 1))
             f9 == Write(f8, 24, F32LE(0, 1))
         IN Built(Write(f9, 28, F32LE(0 - 100, 1)))

\* the three bytes of every colour, in order
RECURSIVE Triplets(_)
Triplets(colors) ==
    IF colors = <<>> THEN <<>>
    ELSE <<ToUint8(Head(colors).r), ToUint8(Head(colors).g),
           ToUint8(Head(colors).b)>> \o Triplets(Tail(colors))

\* brightness is in tenths
buildColorScheme(brightness, colors) ==
    IF \/ assertRange(brightness, 10, COLOR_BRIGHTNESS_MIN,
                      COLOR_BRIGHTNESS_MAX)
       \/ assertColorArray(colors)
    THEN Threw
    ELSE LET f0 == Write(Zeros(34), 0, U32LE(17))
             f1 == Write(Write(f0, 4, U32LE(0)), 8, U32LE(0))
             f2 == Write(f1, 12, F32LE(brightness, 10))
         IN Built(Write(f2, 16, Triplets(colors) \o Triplets(colors)))

(***************************************************************************)
(* Frame building: a parameter object is drawn, then its builder runs.     *)
(***************************************************************************)
ProgramInputs ==
    [perCableKg : {0 - 1, 0, 200, 201},
     effectiveKg : {19, 20, 220, 221},
     progressionKg : {Absent, IsNull, Given(0 - 7), Given(0 - 6), Given(2),
                      Given(7)},
     reps : {0, 1, 100, 101},
     mode : 0 - 1 .. 5,
     baseMode : 0 - 1 .. 5,
     isJustLift : BOOLEAN]

EchoInputs ==
    [level : 0 - 1 .. 4,
     eccentricPct : {0 - 1, 0, 100, 150, 151},
     warmupReps : {Absent, IsNull, Given(0 - 1), Given(0), Given(3),
                   Given(30), Given(31)},
     targetReps : {Absent, IsNull, Given(0 - 1), Given(0), Given(8),
                   Given(30), Given(31)},
     isJustLift : BOOLEAN]

ColorVals ==
    { [r |-> 0, g |-> 168, b |-> 221], [r |-> 255, g |-> 255, b |-> 255],
      [r |-> 256, g |-> 0, b |-> 0], [r |-> 0, g |-> 0 - 1, b |-> 0] }

ColorInputs ==
    [brightness : {0 - 1, 0, 4, 10, 11},
     colors : UNION { [1..n -> ColorVals] : n \in 2..4 }]

NotBuilt == [done |-> FALSE, threw |-> FALSE, frame |-> <<>>]

Done(result) == [done |-> TRUE, threw |-> result.threw, frame |-> result.frame]

InitCodec ==
    /\ \/ app = [kind |-> "initCommand"]
       \/ app = [kind |-> "initPreset"]
       \/ \E params \in ProgramInputs :
             app = [kind |-> "program", params |-> params]
       \/ \E params \in EchoInputs :
             app = [kind |-> "echo", params |-> params]
       \/ \E params \in ColorInputs :
             app = [kind |-> "color", params |-> params]
    /\ device = DeviceInit
    /\ now = 0
    /\ obs = NotBuilt

BuildInitCommand ==
    /\ app.kind = "initCommand" /\ ~obs.done
    /\ obs' = Done(buildInitCommand)
    /\ UNCHANGED <<app, device, now>>

BuildInitPreset ==
    /\ app.kind = "initPreset" /\ ~obs.done
    /\ obs' = Done(buildInitPreset)
    /\ UNCHANGED <<app, device, now>>

BuildProgramParams ==
    /\ app.kind = "program" /\ ~obs.done
    /\ obs' = Done(buildProgramParams(app.params))
    /\ UNCHANGED <<app, device, now>>

BuildEchoControl ==
    /\ app.kind = "echo" /\ ~obs.done
    /\ obs' = Done(buildEchoControl(app.params))
    /\ UNCHANGED <<app, device, now>>

BuildColorScheme ==
    /\ app.kind = "color" /\ ~obs.done
    /\ obs' = Done(buildColorScheme(app.params.brightness, app.params.colors))
    /\ UNCHANGED <<app, device, now>>

NextCodec ==
    \/ BuildInitCommand
    \/ BuildInitPreset
    \/ BuildProgramParams
    \/ BuildEchoControl
    \/ BuildColorScheme

SpecCodec == InitCodec /\ [][NextCodec]_vars

\* a number num / den outside the documented range [min, max]
Outside(num, den, min, max) == num < min * den \/ num > max * den

\* an optional number that is present and outside [min, max]
GivenOutside(opt, min, max) == opt.tag = "num" /\ Outside(opt.v, 1, min, max)

\* a ProgramParams that violates a documented range
ProgramOutOfRange(p) ==
    \/ Outside(p.perCableKg, 2, 0, 100)
    \/ Outside(p.effectiveKg, 2, 10, 110)
    \/ (p.progressionKg.tag = "num" /\ Outside(p.progressionKg.v, 2, 0 - 3, 3))
    \/ (~p.isJustLift /\ Outside(p.reps, 1, 1, 100))
    \/ (IF p.isJustLift THEN p.baseMode ELSE p.mode) \notin 0..4

\* an EchoParams that violates a documented range, targetReps counted in
\* every kind of session
EchoOutOfRange(p) ==
    \/ p.level \notin 0..3
    \/ Outside(p.eccentricPct, 1, 0, 150)
    \/ GivenOutside(p.warmupReps, 0, 30)
    \/ GivenOutside(p.targetReps, 0, 30)

\* the same with targetReps counted only when the session is not Just Lift
EchoOutOfRangeUnlessJustLift(p) ==
    \/ p.level \notin 0..3
    \/ Outside(p.eccentricPct, 1, 0, 150)
    \/ GivenOutside(p.warmupReps, 0, 30)
    \/ (~p.isJustLift /\ GivenOutside(p.targetReps, 0, 30))

\* a colour scheme that violates a documented range
ColorOutOfRange(p) ==
    \/ Outside(p.brightness, 10, 0, 1)
    \/ Len(p.colors) # 3
    \/ \E i \in 1..Len(p.colors) :
          \/ Outside(p.colors[i].r, 1, 0, 255)
          \/ Outside(p.colors[i].g, 1, 0, 255)
          \/ Outside(p.colors[i].b, 1, 0, 255)

NoFrame == obs.threw /\ obs.frame = <<>>

ValidInput ==
    CASE app.kind = "program" -> ~ProgramOutOfRange(app.params)
      [] app.kind = "echo" -> ~EchoOutOfRange(app.params)
      [] app.kind = "color" -> ~ColorOutOfRange(app.params)
      [] OTHER -> TRUE

\* the documented size of each kind of frame
FrameSize ==
    CASE app.kind = "initCommand" -> 4
      [] app.kind = "initPreset" -> 34
      [] app.kind = "program" -> 96
      [] app.kind = "echo" -> 32
      [] app.kind = "color" -> 34

\* C24: for valid inputs every builder returns a frame of exactly its
\* documented size (96, 32, 34, 4 and 34 bytes).
ValidInputBuildsFullFrame ==
    (obs.done /\ ValidInput) => ~obs.threw /\ Len(obs.frame) = FrameSize

\* a program frame built from parameters on the edges of their ranges
EdgeProgramBuilt ==
    /\ obs.done /\ app.kind = "program" /\ ~obs.threw
    /\ app.params.perCableKg = 0 /\ app.params.effectiveKg = 220
    /\ app.params.reps = 100 /\ ~app.params.isJustLift
    /\ Len(obs.frame) = 96

\* the fixed-rep request with the same base mode and the given reps
FixedRepTwin(p, reps) ==
    [p EXCEPT !.isJustLift = FALSE, !.mode = p.baseMode, !.reps = reps]

\* C25: a Just-Lift ProgramParams frame equals the frame of the fixed-rep
\* request with the same base mode at every offset but 0x04, which holds
\* 0xFF in the Just-Lift frame and reps + 3 in the other.
JustLiftFrameDiffersOnlyInReps ==
    (obs.done /\ app.kind = "program" /\ app.params.isJustLift /\ ValidInput)
        => /\ ~obs.threw
           /\ obs.frame[5] = 255
           /\ \A reps \in {1, 8, 100} :
                LET twin == buildProgramParams(FixedRepTwin(app.params, reps))
                IN /\ ~twin.threw
                   /\ twin.frame[5] = reps + 3
                   /\ \A i \in 1..96 :
                        i # 5 => obs.frame[i] = twin.frame[i]

\* a Just-Lift frame built on the Pump profile by a request whose mode is 4
JustLiftOnPumpBuilt ==
    /\ obs.done /\ app.kind = "program" /\ ~obs.threw
    /\ app.params.isJustLift
    /\ app.params.baseMode = 1 /\ app.params.mode = 4

\* C26: for valid EchoParams byte 0x04 of the frame is warmupReps (3 when
\* omitted) and byte 0x05 is targetReps, or 0xFF when isJustLift.
EchoRepBytes ==
    (obs.done /\ app.kind = "echo" /\ ~EchoOutOfRange(app.params))
        => /\ ~obs.threw
           /\ obs.frame[5] = IF app.params.warmupReps.tag = "num"
                             THEN app.params.warmupReps.v ELSE 3
           /\ app.params.isJustLift => obs.frame[6] = 255
           /\ (~app.params.isJustLift /\ app.params.targetReps.tag = "num")
                 => obs.frame[6] = app.params.targetReps.v

(***************************************************************************)
(* Telemetry decoding.  The monitor parser belongs to the device object    *)
(* and keeps the last accepted position of each cable; the rep             *)
(* notification is decoded at the head of handleRepNotification.           *)
(***************************************************************************)
SpikeCeiling == 50000       \* positions above it are sensor glitches
MaxRepBytes == 8            \* longest rep notification payload

\* DataView.getUint16(off, true) on a byte sequence
GetUint16(data, off) == data[off + 1] + 256 * data[off + 2]

\* low and high bytes of the position words of a monitor payload
PosLow == {0, 80, 81}
PosHigh == {0, 195, 255}

\* the position kept for one cable: the decoded one, or the previous
\* accepted one when the decoded one is a spike (no filter at all here)
filterPositionUnfiltered(raw, lastGood) == raw

filterPosition(raw, lastGood) == IF raw > SpikeCeiling THEN lastGood ELSE raw

\* parseMonitorData on the two position words of a payload; d is the parser
\* state
parseMonitorData(d, wordA, wordB) ==
    [posA |-> filterPosition(GetUint16(wordA, 0), d.lastGoodPosA),
     posB |-> filterPosition(GetUint16(wordB, 0), d.lastGoodPosB)]

InitMonitor ==
    /\ device = [lastGoodPosA |-> 0, lastGoodPosB |-> 0]
    /\ app = [posA |-> 0, posB |-> 0]
    /\ now = 0
    /\ obs = [rawA |-> 0, rawB |-> 0, prevA |-> 0, prevB |-> 0,
              parsed |-> FALSE]

ParseMonitor ==
    /\ \E wordA, wordB \in {<<lo, hi>> : lo \in PosLow, hi \in PosHigh} :
         LET sample == parseMonitorData(device, wordA, wordB)
         IN /\ app' = sample
            /\ device' = [lastGoodPosA |-> sample.posA,
                          lastGoodPosB |-> sample.posB]
            /\ obs' = [rawA |-> GetUint16(wordA, 0),
                       rawB |-> GetUint16(wordB, 0),
                       prevA |-> device.lastGoodPosA,
                       prevB |-> device.lastGoodPosB,
                       parsed |-> TRUE]
    /\ UNCHANGED now

SpecMonitor == InitMonitor /\ [][ParseMonitor]_vars

\* head of handleRepNotification: the payload as u16 values, or the return
\* for a short payload, or the RangeError of a read past the end
parseRepNotification(data) ==
    LET indices == {i \in 0..Len(data) : 2 * i < Len(data)}
    IN IF Len(data) < 6
       THEN [outcome |-> "ignored", topCounter |-> 0, completeCounter |-> 0]
       ELSE IF \E i \in indices : 2 * i + 2 > Len(data)
       THEN [outcome |-> "threw", topCounter |-> 0, completeCounter |-> 0]
       ELSE [outcome |-> "decoded",
             topCounter |-> GetUint16(data, 0),
             completeCounter |-> GetUint16(data, 4)]

RepPayloads == UNION { [1..n -> {0, 1, 255}] : n \in 0..MaxRepBytes }

InitDecode ==
    /\ \E data \in RepPayloads : app = [data |-> data]
    /\ device = DeviceInit
    /\ now = 0
    /\ obs = [outcome |-> "none", topCounter |-> 0, completeCounter |-> 0]

DecodeRep ==
    /\ obs.outcome = "none"
    /\ obs' = parseRepNotification(app.data)
    /\ UNCHANGED <<app, device, now>>

SpecDecode == InitDecode /\ [][DecodeRep]_vars

\* C27: a monitor payload with a position above 50000 yields a sample with
\* the previously accepted position of that cable, and no emitted sample has
\* posA or posB above 50000.
SpikeReplacedByLastGood ==
    obs.parsed =>
        /\ obs.rawA > 50000 => app.posA = obs.prevA
        /\ obs.rawB > 50000 => app.posB = obs.prevB
        /\ app.posA <= 50000 /\ app.posB <= 50000

\* a spike on cable A after a non-zero position had been accepted
SpikeAfterAccepted ==
    /\ obs.parsed /\ obs.rawA > 50000
    /\ obs.prevA > 0 /\ app.posA = obs.prevA

\* C28: a rep notification of 6 bytes or more, of even or odd length, is
\* decoded as little-endian uint16 values with topCounter = u16[0] and
\* completeCounter = u16[2], without an exception.
RepPayloadDecoded ==
    (obs.outcome # "none" /\ Len(app.data) >= 6) =>
        /\ obs.outcome = "decoded"
        /\ obs.topCounter = app.data[1] + 256 * app.data[2]
        /\ obs.completeCounter = app.data[5] + 256 * app.data[6]

\* C29: the acknowledgement of a STOP request that was issued before the
\* current session began does not complete (archive and reset) the current
\* session.
StaleStopCompletesNothing ==
    [][("stopWritten" \in obs'.ev /\ obs.staleStops > 0)
          => "completed" \notin obs'.ev]_vars

\* C30: with stop-at-top on, no top event completes a fixed-rep session
\* (targetReps >= 1) while its warm-up is still in progress
\* (warmupReps < warmupTarget).
NoTopCompletionInWarmup ==
    [][(/\ app.stopAtTop /\ ~app.isJustLiftMode /\ app.targetReps >= 1
        /\ app.currentWorkout # NoWorkout
        /\ "topEvent" \in obs'.ev /\ "completed" \in obs'.ev
        /\ "stopEnded" \notin obs'.ev)
          => app.warmupReps >= app.warmupTarget]_vars

\* C31: while a fixed-rep session (targetReps > 0, not Just Lift) is active,
\* workingReps < targetReps.
WorkingBelowTarget ==
    (app.currentWorkout # NoWorkout /\ ~app.isJustLiftMode /\ app.targetReps > 0)
        => app.workingReps < app.targetReps

\* C32: with no active session warmupReps and workingReps are 0 and all
\* position buffers are empty.
IdleMeansEmpty ==
    app.currentWorkout = NoWorkout =>
        /\ app.warmupReps = 0 /\ app.workingReps = 0
        /\ app.topPositionsA = <<>> /\ app.topPositionsB = <<>>
        /\ app.bottomPositionsA = <<>> /\ app.bottomPositionsB = <<>>

\* C33: each started session contributes at most one entry to
\* workoutHistory.
ArchivedAtMostOnce ==
    /\ Len(app.workoutHistory) <= obs.sid
    /\ \A i, j \in DOMAIN app.workoutHistory :
          app.workoutHistory[i].id = app.workoutHistory[j].id => i = j

\* the STOP issued by a stop-at-top completion is acknowledged after the
\* session was archived, and finds nothing to complete
SecondCompletionIsNoOp ==
    /\ "stopWritten" \in obs.ev /\ "completed" \notin obs.ev
    /\ app.stopAtTop
    /\ app.currentWorkout = NoWorkout
    /\ app.workoutHistory # <<>>
    /\ Head(app.workoutHistory).id = obs.sid

\* the reps counted so far
CountedReps == app.warmupReps + app.workingReps

\* C34: with any number of rep listeners registered, each called with the
\* same notification, one advance of the complete counter counts one rep
\* (warmupReps + workingReps grows by exactly 1 unless the step completes the
\* session) and archives at most one session.
OneAdvanceCountsOnce ==
    [][(obs'.sid = obs.sid /\ obs'.advances = obs.advances + 1) =>
          /\ Len(app'.workoutHistory) <= Len(app.workoutHistory) + 1
          /\ IF "completed" \in obs'.ev
             THEN CountedReps' <= 1
             ELSE CountedReps' = CountedReps + 1]_vars

\* two listeners are registered and the advances of the second session were
\* each counted once
TwoListenersOneCount ==
    /\ device.repListeners >= 2
    /\ app.currentWorkout # NoWorkout
    /\ obs.advances >= 1
    /\ CountedReps = obs.advances

\* The gate environment with the scheduling the program relies on: the poll
\* loop keeps delivering samples while it runs, the clock advances, and the
\* link acknowledges the start and STOP writes.
SpecGateFair ==
    /\ SpecGate
    /\ WF_vars(StartWriteOk)
    /\ WF_vars(MonitorRead(Samples))
    /\ WF_vars(Tick)
    /\ WF_vars(StopWriteOk)

\* a started Just-Lift session whose latest sample is in the danger zone of a
\* cable with a calibrated range above the noise floor
HeldInDangerZone ==
    /\ app.currentWorkout # NoWorkout
    /\ app.isJustLiftMode
    /\ device.monitorListeners > 0
    /\ app.currentSample # NoSample
    /\ InDangerZone(app, app.currentSample)

\* C35: a Just-Lift session is not held in the danger zone for ever: if from
\* some point on every sample is in the danger zone and the STOP write
\* succeeds, the session is eventually completed and archived.
HeldSessionEventuallyCompleted == []<>(~HeldInDangerZone)

\* counter values a notification can carry when notifications are dropped or
\* coalesced: the complete counter can advance by 1 or by 2 at once
SkipVals == {0, 1, 2}

\* Rep detection with skipped counter values, on a reliable link.
NextSkip ==
    \/ Connect
    \/ StartProgram(BOOLEAN, 1..MaxTarget)
    \/ StartWriteOk
    \/ MonitorRead(RepSamples)
    \/ RepNotify(SkipVals)

SpecSkip == Init /\ [][NextSkip]_vars

\* C36: after the seed, warmupReps + workingReps follows the cumulative
\* advance (mod 65536) of the complete counter: every notification processed
\* in a session that does not complete it raises the count by the advance it
\* reports, also when that advance is more than 1.
CountFollowsAdvance ==
    [][(/\ obs'.sid = obs.sid
        /\ obs.lastComplete # Undefined
        /\ obs'.lastComplete # obs.lastComplete
        /\ "completed" \notin obs'.ev
        /\ app'.currentWorkout # NoWorkout) =>
          CountedReps' - CountedReps =
              (obs'.lastComplete - obs.lastComplete) % 65536]_vars

\* C37: a fixed-rep session completed by the rep detector, at the bottom or,
\* with stop-at-top, at the top, is archived with targetReps reps.
DetectorArchivesTarget ==
    ("completed" \in obs.ev /\ "stopWritten" \notin obs.ev) =>
        Head(app.workoutHistory).reps = app.targetReps

\* Ignored notifications: obs also marks the steps in which a notification
\* found no session or no sample (ev holds "repIgnored"), and keeps whether
\* one of them was handed to more than one listener.
InitIgnored ==
    /\ app = AppInit
    /\ device = DeviceInit
    /\ now = 0
    /\ obs = [ev |-> {}, sid |-> 0, seen |-> FALSE, advances |-> 0,
              lastComplete |-> Undefined, autoStops |-> 0, plain |-> FALSE,
              dwellClean |-> FALSE, ungated |-> FALSE, ignored |-> FALSE]

SpecIgnored == InitIgnored /\ [][NextSkip]_vars

\* RepCounterState: rep counts, last-counter values, position buffers and
\* calibrated ranges
RepCounterState ==
    <<app.warmupReps, app.workingReps, app.lastTopCounter, app.lastRepCounter,
      app.topPositionsA, app.topPositionsB,
      app.bottomPositionsA, app.bottomPositionsB,
      app.minRepPosA, app.maxRepPosA, app.minRepPosB, app.maxRepPosB>>

\* C38: a rep notification that arrives while no session is active, or before
\* any monitor sample was received, leaves RepCounterState as it was.
IgnoredNotificationChangesNothing ==
    [][("repIgnored" \in obs'.ev) =>
          /\ RepCounterState' = RepCounterState
          /\ app'.workoutHistory = app.workoutHistory]_vars

\* a notification was ignored after a session had left its counters behind
IgnoredWhileIdle ==
    /\ "repIgnored" \in obs.ev
    /\ app.currentWorkout = NoWorkout
    /\ app.currentSample # NoSample
    /\ app.lastRepCounter # Undefined

(***************************************************************************)
(* The input checks of startProgram and startEcho, and the parameter       *)
(* object each hands to the device.  A form field is NaN (nothing numeric  *)
(* typed) or a number; weights are in halves of a kilogram and the display *)
(* unit is the default, kg.                                                *)
(***************************************************************************)
NaN == [tag |-> "nan", v |-> 0]

\* isNaN(x)
isNaN(x) == x.tag = "nan"

\* convertDisplayToKg(value) with weightUnit "kg": NaN for NaN, else value
convertDisplayToKg(value) == IF isNaN(value) THEN NaN ELSE value

Rejected == [accepted |-> FALSE]
Accepted(params) == [accepted |-> TRUE, params |-> params]

\* the weight check of startProgram letting through up to 110 kg
programParamsWideWeight(input) ==
    LET reps == IF input.isJustLift THEN Given(0) ELSE input.reps
        perCableKg == convertDisplayToKg(input.weight)
        progressionKg == convertDisplayToKg(input.progression)
    IN IF \/ isNaN(input.weight) \/ isNaN(perCableKg)
          \/ perCableKg.v < 0 \/ perCableKg.v > 2 * 110
       THEN Rejected
       ELSE IF ~input.isJustLift /\ (isNaN(reps) \/ reps.v < 1 \/ reps.v > 100)
       THEN Rejected
       ELSE IF \/ isNaN(input.progression) \/ isNaN(progressionKg)
               \/ progressionKg.v < 2 * (0 - 3) \/ progressionKg.v > 2 * 3
       THEN Rejected
       ELSE Accepted([mode |-> input.mode,
                      baseMode |-> input.mode,
                      isJustLift |-> input.isJustLift,
                      reps |-> reps.v,
                      perCableKg |-> perCableKg.v,
                      effectiveKg |-> perCableKg.v + 2 * 10,
                      progressionKg |-> Given(progressionKg.v)])

\* startProgram up to the parameter object: the form is read, checked, and
\* the parameters are derived (effectiveKg = perCableKg + 10.0)
programParams(input) ==
    LET reps == IF input.isJustLift THEN Given(0) ELSE input.reps
        perCableKg == convertDisplayToKg(input.weight)
        progressionKg == convertDisplayToKg(input.progression)
    IN IF \/ isNaN(input.weight) \/ isNaN(perCableKg)
          \/ perCableKg.v < 0 \/ perCableKg.v > 2 * 100
       THEN Rejected
       ELSE IF ~input.isJustLift /\ (isNaN(reps) \/ reps.v < 1 \/ reps.v > 100)
       THEN Rejected
       ELSE IF \/ isNaN(input.progression) \/ isNaN(progressionKg)
               \/ progressionKg.v < 2 * (0 - 3) \/ progressionKg.v > 2 * 3
       THEN Rejected
       ELSE Accepted([mode |-> input.mode,
                      baseMode |-> input.mode,
                      isJustLift |-> input.isJustLift,
                      reps |-> reps.v,
                      perCableKg |-> perCableKg.v,
                      effectiveKg |-> perCableKg.v + 2 * 10,
                      progressionKg |-> Given(progressionKg.v)])

\* startEcho up to the parameter object; input.level is the value of the
\* level selector, one above the 0-indexed level
echoParams(input) ==
    LET level == input.level - 1
        warmupReps == 3
        targetReps == IF input.isJustLift THEN Given(0) ELSE input.targetReps
    IN IF \/ isNaN(input.eccentric)
          \/ input.eccentric.v < 0 \/ input.eccentric.v > 150
       THEN Rejected
       ELSE IF ~input.isJustLift /\
               (isNaN(targetReps) \/ targetReps.v < 0 \/ targetReps.v > 30)
       THEN Rejected
       ELSE Accepted([level |-> level,
                      eccentricPct |-> input.eccentric.v,
                      warmupReps |-> Given(warmupReps),
                      targetReps |-> Given(targetReps.v),
                      isJustLift |-> input.isJustLift])

\* what the user can leave in the forms; the selectors offer the values of
\* the enums only
ProgramForms ==
    [weight : {NaN, Given(0 - 1), Given(0), Given(45), Given(200), Given(201)},
     reps : {NaN, Given(0), Given(1), Given(100), Given(101)},
     progression : {NaN, Given(0 - 7), Given(0 - 6), Given(0), Given(6),
                    Given(7)},
     mode : 0..4,
     isJustLift : BOOLEAN]

EchoForms ==
    [level : 1..4,
     eccentric : {NaN, Given(0 - 1), Given(0), Given(100), Given(150),
                  Given(151)},
     targetReps : {NaN, Given(0 - 1), Given(0), Given(8), Given(30),
                   Given(31)},
     isJustLift : BOOLEAN]

NotStarted == [done |-> FALSE, accepted |-> FALSE, threw |-> FALSE,
               frame |-> <<>>]

\* the start button: the checks, and for an accepted form the frame builder
\* that device.startProgram / device.startEcho calls
Started(checked, result) ==
    IF checked.accepted
    THEN [done |-> TRUE, accepted |-> TRUE, threw |-> result.threw,
          frame |-> result.frame]
    ELSE [NotStarted EXCEPT !.done = TRUE]

InitForms ==
    /\ \/ \E input \in ProgramForms : app = [kind |-> "program", input |-> input]
       \/ \E input \in EchoForms : app = [kind |-> "echo", input |-> input]
    /\ device = DeviceInit
    /\ now = 0
    /\ obs = NotStarted

SubmitProgram ==
    /\ app.kind = "program" /\ ~obs.done
    /\ LET checked == programParams(app.input)
       IN obs' = Started(checked,
                         IF checked.accepted
                         THEN buildProgramParams(checked.params) ELSE Threw)
    /\ UNCHANGED <<app, device, now>>

SubmitEcho ==
    /\ app.kind = "echo" /\ ~obs.done
    /\ LET checked == echoParams(app.input)
       IN obs' = Started(checked,
                         IF checked.accepted
                         THEN buildEchoControl(checked.params) ELSE Threw)
    /\ UNCHANGED <<app, device, now>>

NextForms ==
    \/ SubmitProgram
    \/ SubmitEcho

SpecForms == InitForms /\ [][NextForms]_vars

\* C39: a form that passes the checks of startProgram or startEcho, with the
\* mode or level taken from the selector, is never rejected by
\* buildProgramParams or buildEchoControl.
AcceptedStartBuilds ==
    (obs.done /\ obs.accepted) =>
        /\ ~obs.threw
        /\ Len(obs.frame) = IF app.kind = "program" THEN 96 ELSE 32

\* forms at the limits of the checks were accepted and built
AcceptedAtTheLimits ==
    /\ obs.done /\ obs.accepted /\ ~obs.threw
    /\ \/ /\ app.kind = "program" /\ ~app.input.isJustLift
          /\ app.input.weight = Given(200) /\ app.input.reps = Given(100)
          /\ app.input.progression = Given(0 - 6)
       \/ /\ app.kind = "echo" /\ ~app.input.isJustLift
          /\ app.input.eccentric = Given(150)
          /\ app.input.targetReps = Given(30)

====
